---- MODULE Spec2Model ----
(***************************************************************************)
(* Model of the autopotter workflow orchestrator                           *)
(* (src/autopotter_workflow.py, run_autopotter_workflow and __main__)      *)
(* together with the render client it drives                               *)
(* (src/autopotter_tools/json2video_manager.py, Json2VideoAPI) and the     *)
(* call it makes into the publish client                                   *)
(* (src/autopotter_tools/instagram_api.py, InstagramVideoUploader).        *)
(*                                                                         *)
(* Python lists are 0-based; the sequences here are 1-based, so            *)
(* selected_index = i stands for the Python index i - 1.                   *)
(***************************************************************************)
EXTENDS Integers, Sequences, FiniteSets, TLC

(* ------------------------------ bounds -------------------------------- *)

\* largest number of videos the draft generator returns
MaxCandidates == 3

\* json2video_timeout of the configuration, in seconds
TimeoutSecs == 20

\* nested calls of get the interpreter's call stack has room for
RecursionLimit == 6

(* ------------------------- program constants -------------------------- *)

\* time.sleep(10) between two status polls
SleepSecs == 10

\* if video_duration < 2: raise
MinDuration == 2

(* ----------------------------- value sets ----------------------------- *)

\* movie_info.get('duration') when the key is absent (Python None)
NoDuration == -1

\* durations (seconds) the render service reports for a finished movie
Durations == {NoDuration, 1, 2, 5}

\* What json.load gives for one entry of parsed_json2video_configs:
\*   "scenes"  a non-empty dict
\*   "empty"   the dict {}
\*   "null"    None, or another falsy value (0, "", [])
\*   "list"    a truthy value that is not a dict (non-empty list, number,
\*             string); json.loads accepts any JSON value
ConfigKinds == {"scenes", "empty", "null", "list"}

\* states of a job on the render service; "running" stands for the three
\* statuses wait_for_completion treats alike (pending, processing, running)
JobStates == {"running", "done", "error"}

\* no status payload held
NoStatus == [shape |-> "none", status |-> "none", success |-> FALSE, duration |-> NoDuration, url |-> FALSE]

VARIABLES
    pc,                 \* position of the process in the workflow
    video_draft_only,   \* the --video-draft-only flag
    drafted_configs,    \* parsed_json2video_configs as main_autodraft saved them
    available_videos,   \* list of candidates (each stands for its caption)
    available_configs,  \* list of parsed configs, [owner, kind]
    selected_index,     \* index chosen by random.randint (1-based), 0 = unset
    selected_caption,   \* caption of the selected video, 0 = unset
    video_success,      \* loop flag
    project_id,         \* id returned by create_video, 0 = unset
    elapsed,            \* time.time() - start_time while wait_for_completion runs, else 0
    polls,              \* calls of get_project_status in the running wait_for_completion, else 0
    completion_status,  \* value wait_for_completion returned
    video_duration,     \* duration read from the completion status
    artifact,           \* 0 = no file at video_outfile, else owner of the file
    jobs,               \* the render service: jobs[p] = state of project p
    result,             \* "running", "True" or "False" (value returned)
    reason,             \* which exception made the run fail
    exit_code,          \* -1 until sys.exit is called
    createCalls,        \* number of calls of create_video
    renderCalls,        \* owners for which a render client method was called
    downloadCalls,      \* owners for which download_video was called
    publishCalls,       \* number of calls of upload_and_publish
    uploaderCreated,    \* InstagramVideoUploader(...) was evaluated
    invalidDiscards,    \* candidates dropped for an invalid config
    renderFailures,     \* candidates dropped by the inner except handler
    lastFailure,        \* kind of the last candidate-local failure
    \* ---- parse_json2video_config (parse_json2video_configs.py) ----
    ppc,                \* position inside parse_json2video_config
    produced,           \* how the text was produced: the value meant and what surrounds it
    config_str,         \* the argument config_str
    remaining,          \* strategies the for loop has not reached yet
    tried,              \* strategies applied so far, in order
    strategy_name,      \* strategy whose text json.loads accepted, "none" if none
    config_json,        \* the returned value
    saved_kind,         \* what the workflow sees of the saved config
    \* ---- InstagramVideoUploader.upload_and_publish (instagram_api.py) ----
    upc,                \* position inside upload_and_publish and its caller
    caller,             \* who called: "autopost" (autopost.py) or "cli" (__main__)
    video_file,         \* TRUE when the file at video_path exists
    creation_id,        \* id of the media container, 0 = None
    creation_logged,    \* what create_media_container logged: "created" or "failed"
    container,          \* status of the container on the platform, "none" before it exists
    uploaded,           \* the platform has received the video
    container_polls,    \* requests for the status of the container
    uploadCalls,        \* calls of upload_video
    publishVideoCalls,  \* calls of publish_video
    publish_result,     \* answer to media_publish: "none", "published", "rejected"
    success_logged,     \* "Video uploaded successfully!" was logged
    caller_outcome,     \* what the caller made of the call
    \* ---- ConfigManager.get (config.py) ----
    cpc,                \* position inside ConfigManager.get and what it calls
    token,              \* config['instagram_access_token']: "placeholder" or "token"
    depth,              \* frames of get('instagram_access_token') on the call stack
    expiryChecks,       \* calls of is_instagram_token_expired
    refreshRequests,    \* requests for a new token sent by refresh_instagram_token
    get_outcome         \* how the outermost get ended

\* the variables of the workflow
wvars == <<pc, video_draft_only, drafted_configs, available_videos, available_configs,
          selected_index, selected_caption, video_success, project_id, elapsed, polls,
          completion_status, video_duration, artifact, jobs, result, reason,
          exit_code, createCalls, renderCalls, downloadCalls, publishCalls,
          uploaderCreated, invalidDiscards, renderFailures, lastFailure>>

\* the variables of parse_json2video_config
pvars == <<ppc, produced, config_str, remaining, tried, strategy_name, config_json, saved_kind>>

\* the variables of upload_and_publish
uvars == <<upc, caller, video_file, creation_id, creation_logged, container, uploaded, container_polls,
           uploadCalls, publishVideoCalls, publish_result, success_logged, caller_outcome>>

\* the variables of ConfigManager.get
cvars == <<cpc, token, depth, expiryChecks, refreshRequests, get_outcome>>

vars == <<wvars, pvars, uvars, cvars>>

\* upload_and_publish does not run
PublishOff ==
    /\ upc = "off"
    /\ caller = "none"
    /\ video_file = FALSE
    /\ creation_id = 0
    /\ creation_logged = "none"
    /\ container = "none"
    /\ uploaded = FALSE
    /\ container_polls = 0
    /\ uploadCalls = 0
    /\ publishVideoCalls = 0
    /\ publish_result = "none"
    /\ success_logged = FALSE
    /\ caller_outcome = "none"

\* ConfigManager.get does not run
ConfigOff ==
    /\ cpc = "off"
    /\ token = "none"
    /\ depth = 0
    /\ expiryChecks = 0
    /\ refreshRequests = 0
    /\ get_outcome = "none"

(* ------------------------------ helpers ------------------------------- *)

\* a pop that ignores the index and drops the head of the list
Pop_Head(s, i) == Tail(s)

\* list.pop(i): the list without its i-th element
Pop(s, i) == [k \in 1..(Len(s) - 1) |-> IF k < i THEN s[k] ELSE s[k + 1]]

\* a caption taken from the head of the list
CaptionAt_Head(i) == available_videos[1]

\* selected_video = available_videos[selected_index];
\* selected_caption = selected_video['video_caption']
CaptionAt(i) == available_videos[i]

\* "not selected_json2vid_config or selected_json2vid_config == {}"
ConfigInvalid(kind) == kind \in {"null", "empty"}

\* selected_json2vid_config.get('scenes', []) needs a dict
HasGet(kind) == kind \in {"scenes", "empty"}

\* a loop that stops looking at the flag once a render has succeeded
LoopContinues_IgnoresSuccess == available_videos # <<>>

\* the while condition "available_videos and not video_success"
LoopContinues == available_videos # <<>> /\ ~video_success

\* "if not video_success: raise Exception(All videos failed ...)"
AllFailed_Never == FALSE

AllFailed == ~video_success

\* "if video_draft_only: ... return True"
StopAfterRender_Never == FALSE

StopAfterRender == video_draft_only

\* "if video_duration < 2"; comparing None with 2 raises TypeError, which
\* the same handler catches
DurationRejected(d) == d = NoDuration \/ d < MinDuration

\* an exit that reports success whatever the run returned
ExitCode_AlwaysZero(r) == 0

\* sys.exit(0 if success else 1)
ExitCode(r) == IF r = "True" THEN 0 ELSE 1

\* The field 'success' of a status answer.  wait_for_completion reads it
\* with .get('success', False), separately from 'status'; nothing in the
\* client ties the two, so an unfinished or failed job can carry either.
SuccessFlags(st) == IF st = "done" THEN {TRUE} ELSE BOOLEAN

\* the answers get_project_status can return for project p
\*   "movie": the response nests the job under the key 'movie'
\*   "flat" : the job was found in the list result['movies'] and is returned
\*   "full" : the job was not found; the whole response is returned
StatusPayloads(p) ==
    LET st == IF p \in 1..Len(jobs) THEN jobs[p] ELSE "unknown" IN
    { [shape |-> sh, status |-> st, success |-> b, duration |-> d, url |-> u] :
        sh \in (IF p \in 1..Len(jobs) THEN {"movie", "flat"} ELSE {}),
        b \in SuccessFlags(st),
        d \in (IF st = "done" THEN Durations ELSE {NoDuration}),
        u \in (IF st = "done" THEN BOOLEAN ELSE {FALSE}) }
    \cup
    { [shape |-> "full", status |-> "unknown", success |-> b, duration |-> NoDuration, url |-> FALSE] :
        b \in BOOLEAN }

\* status and success as wait_for_completion extracts them
StatusOf(p) == p.status

SuccessOf(p) == p.success

\* "if status == 'done' or success"
Completed(p) == StatusOf(p) = "done" \/ SuccessOf(p)

\* a test that takes every answer for one that names a project
HasProject_Always(answer) == TRUE

\* "project_id = result.get('project')" and "if not project_id: raise"
HasProject(answer) == answer = "project"

\* a loop test that never ends the wait
WithinTimeout_Always == TRUE

\* "while time.time() - start_time < self.timeout"; the clock of the model
\* advances by the sleeps only
WithinTimeout == elapsed < TimeoutSecs

(* --------------------------- exception paths -------------------------- *)

\* a handler that goes back to the publish step when publishing failed
WorkflowFails_RetryPublish(why) ==
    /\ pc' = IF why = "publish_error" THEN "publish" ELSE "done"
    /\ result' = IF why = "publish_error" THEN result ELSE "False"
    /\ reason' = why

\* "except Exception as e: ... return False" of run_autopotter_workflow
WorkflowFails(why) ==
    /\ pc' = "done"
    /\ result' = "False"
    /\ reason' = why

\* a handler that continues without removing the candidate
Discard_KeepsCandidate(kind) ==
    /\ UNCHANGED <<available_videos, available_configs>>
    /\ renderFailures' = renderFailures
    /\ lastFailure' = kind
    /\ pc' = "loop"

\* the inner handler: pop the selected candidate from both lists, continue
Discard(kind) ==
    /\ available_videos' = Pop(available_videos, selected_index)
    /\ available_configs' = Pop(available_configs, selected_index)
    /\ renderFailures' = renderFailures + 1
    /\ lastFailure' = kind
    /\ pc' = "loop"

\* a wait that treats a poll that raised like a pending job: sleep, poll again
OnPollError_Retries ==
    /\ lastFailure' = "poll_error"
    /\ elapsed' = elapsed + SleepSecs
    /\ polls' = polls + 1
    /\ UNCHANGED <<pc, available_videos, available_configs, renderFailures>>

\* wait_for_completion, "except Exception as e: ... raise Exception(...)":
\* the poll raised, the wait raises, the inner handler discards the candidate
OnPollError ==
    /\ Discard("poll_error")
    /\ elapsed' = 0
    /\ polls' = 0

(* ------------------------------- Init --------------------------------- *)

\* The autodraft output: n videos and, index-aligned, their parsed configs
\* (main_autodraft builds one config per video).
Init ==
    /\ pc = "start"
    /\ video_draft_only \in BOOLEAN
    /\ \E n \in 0..MaxCandidates :
         /\ available_videos = [i \in 1..n |-> i]
         /\ \E kinds \in [1..n -> ConfigKinds] :
              /\ drafted_configs = [i \in 1..n |-> [owner |-> i, kind |-> kinds[i]]]
              /\ available_configs = drafted_configs
    /\ selected_index = 0
    /\ selected_caption = 0
    /\ video_success = FALSE
    /\ project_id = 0
    /\ elapsed = 0
    /\ polls = 0
    /\ completion_status = NoStatus
    /\ video_duration = NoDuration
    /\ artifact = 0
    /\ jobs = <<>>
    /\ result = "running"
    /\ reason = "none"
    /\ exit_code = -1
    /\ createCalls = 0
    /\ renderCalls = {}
    /\ downloadCalls = {}
    /\ publishCalls = 0
    /\ uploaderCreated = FALSE
    /\ invalidDiscards = 0
    /\ renderFailures = 0
    /\ lastFailure = "none"
    /\ ppc = "off"
    /\ produced = [value |-> [t |-> "none", text |-> <<>>, kids |-> <<>>],
                   damage |-> "none", pre |-> <<>>, post |-> <<>>]
    /\ config_str = <<>>
    /\ remaining = <<>>
    /\ tried = <<>>
    /\ strategy_name = "none"
    /\ config_json = [t |-> "none", text |-> <<>>, kids |-> <<>>]
    /\ saved_kind = "none"
    /\ PublishOff
    /\ ConfigOff

(* ------------------------------ actions ------------------------------- *)

\* Lines 34-85: load the configuration, run main_autodraft, read its
\* output, build the render client and test the connection.
Prepare ==
    /\ UNCHANGED <<pvars, uvars, cvars>>
    /\ pc = "start"
    /\ \E outcome \in {"ok", "config_error", "draft_error", "no_api_key", "no_connection"} :
         IF outcome # "ok" THEN WorkflowFails(outcome)
         ELSE IF available_videos = <<>> THEN WorkflowFails("no_videos")
         ELSE /\ pc' = "loop"
              /\ UNCHANGED <<result, reason>>
    /\ UNCHANGED <<video_draft_only, drafted_configs, available_videos, available_configs,
                   selected_index, selected_caption, video_success, project_id, elapsed, polls,
                   completion_status, video_duration, artifact, jobs, exit_code,
                   createCalls, renderCalls, downloadCalls, publishCalls, uploaderCreated,
                   invalidDiscards, renderFailures, lastFailure>>

\* Lines 91-107: one pass through the head of the while loop.
SelectVideo ==
    /\ UNCHANGED <<pvars, uvars, cvars>>
    /\ pc = "loop"
    /\ LoopContinues
    /\ \E i \in 1..Len(available_videos) :
         LET kind == available_configs[i].kind IN
         /\ selected_index' = i
         /\ IF ConfigInvalid(kind)
            THEN /\ available_videos' = Pop(available_videos, i)
                 /\ available_configs' = Pop(available_configs, i)
                 /\ invalidDiscards' = invalidDiscards + 1
                 /\ lastFailure' = "invalid_config"
                 /\ UNCHANGED <<pc, result, reason, selected_caption>>
            ELSE /\ selected_caption' = CaptionAt(i)
                 /\ lastFailure' = "none"
                 /\ UNCHANGED <<available_videos, available_configs, invalidDiscards>>
                 /\ IF HasGet(kind)
                    THEN /\ pc' = "create"
                         /\ UNCHANGED <<result, reason>>
                    ELSE WorkflowFails("attribute_error")
    /\ UNCHANGED <<video_draft_only, drafted_configs, video_success, project_id, elapsed, polls,
                   completion_status, video_duration, artifact, jobs, exit_code,
                   createCalls, renderCalls, downloadCalls, publishCalls, uploaderCreated,
                   renderFailures>>

\* The render service works on the submitted jobs on its own.
RenderService ==
    /\ UNCHANGED <<pvars, uvars, cvars>>
    /\ pc \in {"create", "wait", "consume", "download", "loop"}
    /\ \E p \in 1..Len(jobs) :
         \E st \in JobStates \ {"running"} :
            /\ jobs[p] = "running"
            /\ jobs' = [jobs EXCEPT ![p] = st]
    /\ UNCHANGED <<pc, video_draft_only, drafted_configs, available_videos, available_configs,
                   selected_index, selected_caption, video_success, project_id, elapsed, polls,
                   completion_status, video_duration, artifact, result, reason,
                   exit_code, createCalls, renderCalls, downloadCalls, publishCalls,
                   uploaderCreated, invalidDiscards, renderFailures, lastFailure>>

\* Lines 112-113 with Json2VideoAPI.create_video: post the config; the
\* request can fail, or the answer can lack the key 'project'.
CreateVideo ==
    /\ UNCHANGED <<pvars, uvars, cvars>>
    /\ pc = "create"
    /\ LET owner == available_configs[selected_index].owner IN
       /\ createCalls' = createCalls + 1
       /\ renderCalls' = renderCalls \cup {owner}
       /\ \E answer \in {"project", "http_error", "no_project"} :
            IF answer = "http_error"
            THEN \* raise_for_status or the request raised
                 /\ Discard("submit")
                 /\ UNCHANGED <<jobs, project_id, elapsed, polls>>
            ELSE IF ~HasProject(answer)
            THEN \* "No project ID in API response"
                 /\ Discard("submit")
                 /\ UNCHANGED <<jobs, project_id, elapsed, polls>>
            ELSE \* the id is handed to wait_for_completion; the service has a
                 \* job only if its answer named one
                 /\ jobs' = IF answer = "project" THEN Append(jobs, "running") ELSE jobs
                 /\ project_id' = IF answer = "project" THEN Len(jobs) + 1 ELSE 0
                 /\ elapsed' = 0
                 /\ polls' = 0
                 /\ pc' = "wait"
                 /\ UNCHANGED <<available_videos, available_configs, renderFailures, lastFailure>>
    /\ UNCHANGED <<video_draft_only, drafted_configs, selected_index, selected_caption,
                   video_success, completion_status, video_duration, artifact, result,
                   reason, exit_code, downloadCalls, publishCalls, uploaderCreated,
                   invalidDiscards>>

\* Json2VideoAPI.wait_for_completion, one pass through its while loop:
\* one call of get_project_status and the branch on its answer.
WaitPoll ==
    /\ UNCHANGED <<pvars, uvars, cvars>>
    /\ pc = "wait"
    /\ WithinTimeout
    /\ renderCalls' = renderCalls \cup {available_configs[selected_index].owner}
    /\ \/ \* the request raised: wrapped and raised again, no retry
          /\ OnPollError
          /\ UNCHANGED completion_status
       \/ \E p \in StatusPayloads(project_id) :
            IF Completed(p)
            THEN /\ completion_status' = p
                 /\ pc' = "consume"
                 /\ elapsed' = 0
                 /\ polls' = 0
                 /\ UNCHANGED <<available_videos, available_configs, renderFailures,
                                lastFailure>>
            ELSE IF StatusOf(p) = "error"
            THEN /\ Discard("error_status")
                 /\ elapsed' = 0
                 /\ polls' = 0
                 /\ UNCHANGED completion_status
            ELSE \* pending, processing, running, not_found_yet, unknown: sleep
                 /\ elapsed' = elapsed + SleepSecs
                 /\ polls' = polls + 1
                 /\ UNCHANGED <<pc, available_videos, available_configs, renderFailures,
                                lastFailure, completion_status>>
    /\ UNCHANGED <<video_draft_only, drafted_configs, selected_index, selected_caption,
                   video_success, project_id, video_duration, artifact, jobs, result,
                   reason, exit_code, createCalls, downloadCalls, publishCalls,
                   uploaderCreated, invalidDiscards>>

\* wait_for_completion after its loop: "Video creation timed out"
WaitTimeout ==
    /\ UNCHANGED <<pvars, uvars, cvars>>
    /\ pc = "wait"
    /\ ~WithinTimeout
    /\ Discard("timeout")
    /\ elapsed' = 0
    /\ polls' = 0
    /\ UNCHANGED <<video_draft_only, drafted_configs, selected_index, selected_caption,
                   video_success, project_id, completion_status, video_duration,
                   artifact, jobs, result, reason, exit_code, createCalls, renderCalls,
                   downloadCalls, publishCalls, uploaderCreated, invalidDiscards>>

\* Lines 120-128: read the movie metadata out of the completion status.
\* Nothing reads completion_status after these lines, so the model drops it.
ConsumeStatus ==
    /\ UNCHANGED <<pvars, uvars, cvars>>
    /\ pc = "consume"
    /\ completion_status' = NoStatus
    /\ IF completion_status.shape # "movie"
       THEN \* completion_status['movie'] raises KeyError
            /\ Discard("bad_payload")
            /\ UNCHANGED video_duration
       ELSE /\ video_duration' = completion_status.duration
            /\ IF DurationRejected(completion_status.duration)
               THEN Discard(IF completion_status.duration = NoDuration
                            THEN "type_error" ELSE "short")
               ELSE /\ pc' = "download"
                    /\ UNCHANGED <<available_videos, available_configs, renderFailures,
                                   lastFailure>>
    /\ UNCHANGED <<video_draft_only, drafted_configs, selected_index, selected_caption,
                   video_success, project_id, elapsed, polls, artifact, jobs,
                   result, reason, exit_code, createCalls, renderCalls, downloadCalls,
                   publishCalls, uploaderCreated, invalidDiscards>>

\* Lines 132-135 with Json2VideoAPI.download_video: ask for the status
\* again, take the url, stream the file to video_outfile.
DownloadVideo ==
    /\ UNCHANGED <<pvars, uvars, cvars>>
    /\ pc = "download"
    /\ LET owner == available_configs[selected_index].owner IN
       /\ renderCalls' = renderCalls \cup {owner}
       /\ downloadCalls' = downloadCalls \cup {owner}
       /\ \/ \* get_project_status or the GET of the url raised
             /\ Discard("download")
             /\ UNCHANGED <<artifact, video_success>>
          \/ \E p \in StatusPayloads(project_id) :
               IF ~p.url
               THEN \* "No download URL found in project status"
                    /\ Discard("download")
                    /\ UNCHANGED <<artifact, video_success>>
               ELSE \/ \* the stream broke after the file was opened
                       /\ artifact' = owner
                       /\ Discard("download")
                       /\ UNCHANGED video_success
                    \/ /\ artifact' = owner
                       /\ video_success' = TRUE
                       /\ pc' = "loop"
                       /\ UNCHANGED <<available_videos, available_configs,
                                      renderFailures, lastFailure>>
    /\ UNCHANGED <<video_draft_only, drafted_configs, selected_index, selected_caption,
                   project_id, elapsed, polls, completion_status, video_duration, jobs, result,
                   reason, exit_code, createCalls, publishCalls, uploaderCreated,
                   invalidDiscards>>

\* Lines 144-154: the loop has ended.
LoopExit ==
    /\ UNCHANGED <<pvars, uvars, cvars>>
    /\ pc = "loop"
    /\ ~LoopContinues
    /\ IF AllFailed THEN WorkflowFails("all_videos_failed")
       ELSE IF StopAfterRender
       THEN /\ pc' = "done"
            /\ result' = "True"
            /\ UNCHANGED reason
       ELSE /\ pc' = "publish"
            /\ UNCHANGED <<result, reason>>
    /\ UNCHANGED <<video_draft_only, drafted_configs, available_videos, available_configs,
                   selected_index, selected_caption, video_success, project_id, elapsed, polls,
                   completion_status, video_duration, artifact, jobs, exit_code,
                   createCalls, renderCalls, downloadCalls, publishCalls, uploaderCreated,
                   invalidDiscards, renderFailures, lastFailure>>

\* Line 158: InstagramVideoUploader(config_file); its constructor loads the
\* configuration and refreshes the token, and raises when that fails.
CreateUploader ==
    /\ UNCHANGED <<pvars, uvars, cvars>>
    /\ pc = "publish"
    /\ uploaderCreated' = TRUE
    /\ \/ /\ pc' = "publish_call"
          /\ UNCHANGED <<result, reason>>
       \/ \* the token refresh failed
          WorkflowFails("publish_error")
       \/ \* the configuration has no ACCESS_TOKEN: KeyError in get_long_lived_token
          WorkflowFails("missing_credentials")
    /\ UNCHANGED <<video_draft_only, drafted_configs, available_videos, available_configs,
                   selected_index, selected_caption, video_success, project_id, elapsed, polls,
                   completion_status, video_duration, artifact, jobs, exit_code,
                   createCalls, renderCalls, downloadCalls, publishCalls,
                   invalidDiscards, renderFailures, lastFailure>>

\* Lines 159-161: upload_and_publish(video_path, selected_caption,
\* thumbnail_offset).  The method is defined as
\* upload_and_publish(self, video_path, caption): the call passes one
\* positional argument too many, so Python raises TypeError before the body
\* runs, and lines 162-170 (cleanup, return True) are never reached.
UploadAndPublish ==
    /\ UNCHANGED <<pvars, uvars, cvars>>
    /\ pc = "publish_call"
    /\ publishCalls' = publishCalls + 1
    /\ WorkflowFails("publish_error")
    /\ UNCHANGED <<video_draft_only, drafted_configs, available_videos, available_configs,
                   selected_index, selected_caption, video_success, project_id, elapsed, polls,
                   completion_status, video_duration, artifact, jobs, exit_code,
                   createCalls, renderCalls, downloadCalls, uploaderCreated,
                   invalidDiscards, renderFailures, lastFailure>>

\* __main__, lines 198-199: sys.exit(0 if success else 1)
Exit ==
    /\ UNCHANGED <<pvars, uvars, cvars>>
    /\ pc = "done"
    /\ pc' = "exited"
    /\ exit_code' = ExitCode(result)
    /\ UNCHANGED <<video_draft_only, drafted_configs, available_videos, available_configs,
                   selected_index, selected_caption, video_success, project_id, elapsed, polls,
                   completion_status, video_duration, artifact, jobs, result, reason,
                   createCalls, renderCalls, downloadCalls, publishCalls, uploaderCreated,
                   invalidDiscards, renderFailures, lastFailure>>

Next ==
    \/ Prepare
    \/ SelectVideo
    \/ RenderService
    \/ CreateVideo
    \/ WaitPoll
    \/ WaitTimeout
    \/ ConsumeStatus
    \/ DownloadVideo
    \/ LoopExit
    \/ CreateUploader
    \/ UploadAndPublish
    \/ Exit

Spec == Init /\ [][Next]_vars

(* ====================================================================== *)
(* parse_json2video_config                                                *)
(* (src/autopotter_tools/parse_json2video_configs.py, lines 22-95)        *)
(*                                                                        *)
(* A text is a sequence of characters.  The characters of the model:      *)
(*   "{" "}" "[" "]" ":" ","   themselves                                 *)
(*   "q"   the double quote          "b"   the backslash                  *)
(*   "n"   the letter n              "a"   another letter                 *)
(*   "1"   a digit                   " "   the space                      *)
(*   "LF"  the line feed (a control character, and JSON whitespace)       *)
(*   "C1"  the control character \x01 (not JSON whitespace)               *)
(*   "scenes", "elements"   these two words, each written as one          *)
(*         character; no strategy looks inside a word without backslash   *)
(* ====================================================================== *)

\* characters matched by [\x00-\x1f\x7f-\x9f]
ControlChars == {"LF", "C1"}

\* json whitespace (of " \t\n\r", the two the model has)
Whitespace == {" ", "LF"}

\* the argument None
None == <<"None">>

(* ------------------------------ JSON values --------------------------- *)

JNum(digits) == [t |-> "num", text |-> digits, kids |-> <<>>]

JStr(chars) == [t |-> "str", text |-> chars, kids |-> <<>>]

JList(items) == [t |-> "list", text |-> <<>>, kids |-> items]

\* a dict; kids are its members [key, val] in order
JObj(members) == [t |-> "obj", text |-> <<>>, kids |-> members]

Member(k, v) == [key |-> k, val |-> v]

\* the dict {}
EmptyConfig == JObj(<<>>)

\* no value (json.loads raised)
NoValue == [t |-> "none", text |-> <<>>, kids |-> <<>>]

(* ------------------------------ json.loads ---------------------------- *)

\* the scanner's answer: a value and the index after it, or a failure
Scanned(v, i) == [ok |-> TRUE, val |-> v, pos |-> i]

DecodeError == [ok |-> FALSE, val |-> NoValue, pos |-> 0]

RECURSIVE SkipWs(_, _)
\* index of the first character at or after i that is not whitespace
SkipWs(s, i) == IF i <= Len(s) /\ s[i] \in Whitespace THEN SkipWs(s, i + 1) ELSE i

\* the character an escape sequence stands for
Unescaped(c) == IF c = "n" THEN "LF" ELSE c

RECURSIVE ScanString(_, _, _)
\* the string whose opening quote is just before i (strict: a raw control
\* character inside a string is an error)
ScanString(s, i, acc) ==
    IF i > Len(s) THEN DecodeError
    ELSE IF s[i] = "q" THEN Scanned(JStr(acc), i + 1)
    ELSE IF s[i] = "b"
         THEN IF i + 1 <= Len(s) /\ s[i + 1] \in {"q", "b", "n"}
              THEN ScanString(s, i + 2, Append(acc, Unescaped(s[i + 1])))
              ELSE DecodeError
    ELSE IF s[i] \in ControlChars THEN DecodeError
    ELSE ScanString(s, i + 1, Append(acc, s[i]))

RECURSIVE ScanNumber(_, _, _)
ScanNumber(s, i, acc) ==
    IF i <= Len(s) /\ s[i] = "1" THEN ScanNumber(s, i + 1, Append(acc, s[i]))
    ELSE Scanned(JNum(acc), i)

RECURSIVE ScanValue(_, _)
RECURSIVE ScanItems(_, _, _)
RECURSIVE ScanMembers(_, _, _)

\* the value that starts at i
ScanValue(s, i) ==
    IF i > Len(s) THEN DecodeError
    ELSE IF s[i] = "q" THEN ScanString(s, i + 1, <<>>)
    ELSE IF s[i] = "1" THEN ScanNumber(s, i, <<>>)
    ELSE IF s[i] = "["
         THEN LET j == SkipWs(s, i + 1) IN
              IF j <= Len(s) /\ s[j] = "]" THEN Scanned(JList(<<>>), j + 1)
              ELSE ScanItems(s, j, <<>>)
    ELSE IF s[i] = "{"
         THEN LET j == SkipWs(s, i + 1) IN
              IF j <= Len(s) /\ s[j] = "}" THEN Scanned(JObj(<<>>), j + 1)
              ELSE ScanMembers(s, j, <<>>)
    ELSE DecodeError

\* the items of an array from i on, up to its closing bracket
ScanItems(s, i, acc) ==
    LET v == ScanValue(s, i) IN
    IF ~v.ok THEN DecodeError
    ELSE LET j == SkipWs(s, v.pos) IN
         IF j > Len(s) THEN DecodeError
         ELSE IF s[j] = "]" THEN Scanned(JList(Append(acc, v.val)), j + 1)
         ELSE IF s[j] = "," THEN ScanItems(s, SkipWs(s, j + 1), Append(acc, v.val))
         ELSE DecodeError

\* the members of an object from i on, up to its closing brace
ScanMembers(s, i, acc) ==
    IF i > Len(s) \/ s[i] # "q" THEN DecodeError
    ELSE LET k == ScanString(s, i + 1, <<>>) IN
         IF ~k.ok THEN DecodeError
         ELSE LET c == SkipWs(s, k.pos) IN
              IF c > Len(s) \/ s[c] # ":" THEN DecodeError
              ELSE LET v == ScanValue(s, SkipWs(s, c + 1)) IN
                   IF ~v.ok THEN DecodeError
                   ELSE LET j == SkipWs(s, v.pos)
                            m == Append(acc, Member(k.val.text, v.val)) IN
                        IF j > Len(s) THEN DecodeError
                        ELSE IF s[j] = "}" THEN Scanned(JObj(m), j + 1)
                        ELSE IF s[j] = "," THEN ScanMembers(s, SkipWs(s, j + 1), m)
                        ELSE DecodeError

\* json.loads(s): one value, whitespace around it allowed, nothing else
JsonLoads(s) ==
    LET v == ScanValue(s, SkipWs(s, 1)) IN
    IF v.ok /\ SkipWs(s, v.pos) = Len(s) + 1 THEN v ELSE DecodeError

(* ------------------------------ json.dumps ---------------------------- *)

RECURSIVE Concat(_)
\* the concatenation of a sequence of texts
Concat(ts) == IF ts = <<>> THEN <<>> ELSE Head(ts) \o Concat(Tail(ts))

\* a character of a string as JSON writes it
Escaped(c) ==
    IF c = "q" THEN <<"b", "q">>
    ELSE IF c = "b" THEN <<"b", "b">>
    ELSE IF c = "LF" THEN <<"b", "n">>
    ELSE <<c>>

JsonString(chars) ==
    <<"q">> \o Concat([k \in 1..Len(chars) |-> Escaped(chars[k])]) \o <<"q">>

RECURSIVE JsonDumps(_)
\* the compact JSON text of a value
JsonDumps(v) ==
    IF v.t = "num" THEN v.text
    ELSE IF v.t = "str" THEN JsonString(v.text)
    ELSE IF v.t = "list"
         THEN <<"[">>
              \o Concat([k \in 1..Len(v.kids) |->
                           (IF k > 1 THEN <<",">> ELSE <<>>) \o JsonDumps(v.kids[k])])
              \o <<"]">>
    ELSE <<"{">>
         \o Concat([k \in 1..Len(v.kids) |->
                      (IF k > 1 THEN <<",">> ELSE <<>>)
                      \o JsonString(v.kids[k].key) \o <<":">> \o JsonDumps(v.kids[k].val)])
         \o <<"}">>

(* --------------------------- repair strategies ------------------------ *)

\* s.find(c): index of the first c, 0 if there is none (Python: -1)
Find(s, c) ==
    IF \E k \in 1..Len(s) : s[k] = c
    THEN CHOOSE k \in 1..Len(s) : s[k] = c /\ \A j \in 1..(k - 1) : s[j] # c
    ELSE 0

\* s.rfind(c): index of the last c, 0 if there is none
RFind(s, c) ==
    IF \E k \in 1..Len(s) : s[k] = c
    THEN CHOOSE k \in 1..Len(s) : s[k] = c /\ \A j \in (k + 1)..Len(s) : s[j] # c
    ELSE 0

RECURSIVE Replace(_, _, _, _)
\* s.replace(x y, z) for the two-character text x y and the character z
Replace(s, x, y, z) ==
    IF Len(s) < 2 THEN s
    ELSE IF s[1] = x /\ s[2] = y THEN <<z>> \o Replace(SubSeq(s, 3, Len(s)), x, y, z)
    ELSE <<s[1]>> \o Replace(Tail(s), x, y, z)

IsControl(c) == c \in ControlChars

\* lambda s: re.sub(r'[\x00-\x1f\x7f-\x9f]', '', s)
ControlCharacterRemoval(s) == SelectSeq(s, LAMBDA c : ~IsControl(c))

\* an extraction that stops at the first closing brace
JsonExtraction_FirstClose(s) ==
    IF Find(s, "{") # 0 /\ Find(s, "}") > Find(s, "{")
    THEN SubSeq(s, Find(s, "{"), Find(s, "}"))
    ELSE s

\* lambda s: s[s.find('{'):s.rfind('}')+1] if s.find('{') != -1 and
\*           s.rfind('}') > s.find('{') else s
JsonExtraction(s) ==
    IF Find(s, "{") # 0 /\ RFind(s, "}") > Find(s, "{")
    THEN SubSeq(s, Find(s, "{"), RFind(s, "}"))
    ELSE s

\* lambda s: s.replace('\\"', '"').replace('\\n', '\n')
EscapedCharacterFixing(s) == Replace(Replace(s, "b", "q", "q"), "b", "n", "LF")

\* a first strategy that cuts the text down to its braces
DirectParsing_Extracts(s) == JsonExtraction(s)

\* lambda s: s
DirectParsing(s) == s

\* an order that tries the extraction before the removal of control characters
repair_strategies_Swapped == <<"direct parsing", "JSON extraction",
                               "control character removal", "escaped character fixing">>

\* the list repair_strategies, by the names the code gives them
repair_strategies == <<"direct parsing", "control character removal",
                       "JSON extraction", "escaped character fixing">>

\* repair_func(config_str) of the strategy called name
Repair(name, s) ==
    CASE name = "direct parsing" -> DirectParsing(s)
      [] name = "control character removal" -> ControlCharacterRemoval(s)
      [] name = "JSON extraction" -> JsonExtraction(s)
      [] name = "escaped character fixing" -> EscapedCharacterFixing(s)

\* a test that lets the empty string through
Falsy_NoneOnly(s) == s = None

\* "not config_str"
Falsy(s) == s = None \/ s = <<>>

\* a handler that catches nothing
Caught_Nothing(e) == FALSE

\* "except json.JSONDecodeError"
Caught(e) == e = "JSONDecodeError"

(* ------------------------- what the model feeds ----------------------- *)

\* a config with one scene that has one element
SceneConfig == JObj(<<Member(<<"scenes">>,
                       JList(<<JObj(<<Member(<<"elements">>, JList(<<JNum(<<"1">>)>>))>>)>>))>>)

\* a config whose only scene has no element
BareSceneConfig == JObj(<<Member(<<"scenes">>,
                           JList(<<JObj(<<Member(<<"elements">>, JList(<<>>))>>)>>))>>)

\* the values a text of the model can denote
Values ==
    { JNum(<<"1">>), JStr(<<"a">>), JList(<<>>), JList(<<JNum(<<"1">>)>>),
      JList(<<JObj(<<Member(<<"a">>, JNum(<<"1">>))>>)>>),
      EmptyConfig,
      JObj(<<Member(<<"a">>, JNum(<<"1">>))>>),
      JObj(<<Member(<<"a">>, JStr(<<"a", "LF", "n">>))>>),
      JObj(<<Member(<<"a">>, JStr(<<"q", "}">>)), Member(<<"n">>, JList(<<JNum(<<"1", "1">>)>>))>>),
      JObj(<<Member(<<"scenes">>, JList(<<>>))>>),
      SceneConfig, BareSceneConfig }

\* what the writer of the text did to the JSON text of the value
\*   "none"      nothing
\*   "pretty"    a line feed after every comma and colon
\*   "raw"       line feeds inside strings written raw, not as \n
\*   "escaped"   every quote written as \"
\*   "cut"       the last character is missing
Damages == {"none", "pretty", "raw", "escaped", "cut"}

RECURSIVE Pretty(_)
Pretty(s) ==
    IF s = <<>> THEN <<>>
    ELSE IF Head(s) \in {",", ":"} THEN <<Head(s), "LF">> \o Pretty(Tail(s))
    ELSE <<Head(s)>> \o Pretty(Tail(s))

RECURSIVE EscapeQuotes(_)
EscapeQuotes(s) ==
    IF s = <<>> THEN <<>>
    ELSE IF Head(s) = "q" THEN <<"b", "q">> \o EscapeQuotes(Tail(s))
    ELSE <<Head(s)>> \o EscapeQuotes(Tail(s))

Damaged(d, s) ==
    CASE d = "none" -> s
      [] d = "pretty" -> Pretty(s)
      [] d = "raw" -> Replace(s, "b", "n", "LF")
      [] d = "escaped" -> EscapeQuotes(s)
      [] d = "cut" -> SubSeq(s, 1, Len(s) - 1)

\* text before the JSON text
Prefixes == { <<>>, <<" ">>, <<"C1">>, <<"a", " ">>, <<"a", "}", " ">>, <<"a", "{", "a", "}", " ">> }

\* text after the JSON text
Suffixes == { <<>>, <<"LF">>, <<" ", "a">>, <<" ", "{", "a">>, <<" ", "a", "}">> }

\* the text is prose: it has a letter
IsProse(s) == \E k \in 1..Len(s) : s[k] \in {"a", "n"}

\* the record of a text that was given as such (None or the empty string)
Given == [value |-> NoValue, damage |-> "none", pre |-> <<>>, post |-> <<>>]

(* ------------------------------- Init --------------------------------- *)

\* the workflow does not run
WorkflowOff ==
    /\ pc = "off"
    /\ video_draft_only = FALSE
    /\ drafted_configs = <<>>
    /\ available_videos = <<>>
    /\ available_configs = <<>>
    /\ selected_index = 0
    /\ selected_caption = 0
    /\ video_success = FALSE
    /\ project_id = 0
    /\ elapsed = 0
    /\ polls = 0
    /\ completion_status = NoStatus
    /\ video_duration = NoDuration
    /\ artifact = 0
    /\ jobs = <<>>
    /\ result = "running"
    /\ reason = "none"
    /\ exit_code = -1
    /\ createCalls = 0
    /\ renderCalls = {}
    /\ downloadCalls = {}
    /\ publishCalls = 0
    /\ uploaderCreated = FALSE
    /\ invalidDiscards = 0
    /\ renderFailures = 0
    /\ lastFailure = "none"

\* parse_json2video_config is called with a text: None, the empty string,
\* or the JSON text of a value, possibly damaged, possibly with text around
ParseInit ==
    /\ WorkflowOff
    /\ PublishOff
    /\ ConfigOff
    /\ ppc = "entry"
    /\ \/ /\ produced = Given
          /\ config_str \in {None, <<>>}
       \/ \E v \in Values, d \in Damages, pre \in Prefixes, post \in Suffixes :
            /\ produced = [value |-> v, damage |-> d, pre |-> pre, post |-> post]
            /\ config_str = pre \o Damaged(d, JsonDumps(v)) \o post
    /\ remaining = <<>>
    /\ tried = <<>>
    /\ strategy_name = "none"
    /\ config_json = NoValue
    /\ saved_kind = "none"

(* ------------------------------ actions ------------------------------- *)

\* Lines 39-53: the test of the argument and the list of strategies
ParseEntry ==
    /\ ppc = "entry"
    /\ IF Falsy(config_str)
       THEN /\ config_json' = EmptyConfig
            /\ ppc' = "returned"
            /\ UNCHANGED remaining
       ELSE /\ remaining' = repair_strategies
            /\ ppc' = "loop"
            /\ UNCHANGED config_json
    /\ UNCHANGED <<produced, config_str, tried, strategy_name, saved_kind>>
    /\ UNCHANGED <<wvars, uvars, cvars>>

\* Lines 56-69: one pass of the for loop
TryStrategy ==
    /\ ppc = "loop"
    /\ remaining # <<>>
    /\ LET name == Head(remaining)
           loaded == JsonLoads(Repair(name, config_str)) IN
       /\ tried' = Append(tried, name)
       /\ IF loaded.ok
          THEN /\ config_json' = loaded.val
               /\ strategy_name' = name
               /\ ppc' = "returned"
               /\ UNCHANGED remaining
          ELSE IF Caught("JSONDecodeError")
          THEN /\ remaining' = Tail(remaining)
               /\ UNCHANGED <<ppc, config_json, strategy_name>>
          ELSE /\ ppc' = "raised"
               /\ UNCHANGED <<remaining, config_json, strategy_name>>
    /\ UNCHANGED <<produced, config_str, saved_kind>>
    /\ UNCHANGED <<wvars, uvars, cvars>>

\* Lines 87-95: every strategy failed
AllStrategiesFailed ==
    /\ ppc = "loop"
    /\ remaining = <<>>
    /\ config_json' = EmptyConfig
    /\ ppc' = "returned"
    /\ UNCHANGED <<produced, config_str, remaining, tried, strategy_name, saved_kind>>
    /\ UNCHANGED <<wvars, uvars, cvars>>

\* what the workflow's tests make of a value read back from the saved file
KindOf(v) ==
    IF v.t = "obj" THEN (IF v.kids = <<>> THEN "empty" ELSE "scenes")
    ELSE IF v.text = <<>> /\ v.kids = <<>> THEN "null"
    ELSE "list"

\* DraftVideo.get_json2video_config (enhanced_autodraft.py, 24-29) hands the
\* value on as it is; main_autodraft saves it (137-148)
GetJson2VideoConfig ==
    /\ ppc = "returned"
    /\ saved_kind' = KindOf(config_json)
    /\ ppc' = "saved"
    /\ UNCHANGED <<produced, config_str, remaining, tried, strategy_name, config_json>>
    /\ UNCHANGED <<wvars, uvars, cvars>>

ParseNext ==
    \/ ParseEntry
    \/ TryStrategy
    \/ AllStrategiesFailed
    \/ GetJson2VideoConfig

ParseSpec == ParseInit /\ [][ParseNext]_vars

(* ---------- InstagramVideoUploader.upload_and_publish and its callers ---------- *)

\* get_json2video_config and the parser do not run
ParseOff ==
    /\ ppc = "off"
    /\ produced = Given
    /\ config_str = <<>>
    /\ remaining = <<>>
    /\ tried = <<>>
    /\ strategy_name = "none"
    /\ config_json = [t |-> "none", text |-> <<>>, kids |-> <<>>]
    /\ saved_kind = "none"

\* the callers that pass (video_path, caption)
Callers == {"autopost", "cli"}

\* the statuses after which a media container changes no more; before them
\* the platform reports IN_PROGRESS
Terminal == {"FINISHED", "ERROR", "EXPIRED"}

\* the uploader is constructed and a caller is about to call
\* upload_and_publish(video_path, caption)
PublishInit ==
    /\ WorkflowOff
    /\ ParseOff
    /\ ConfigOff
    /\ upc = "create"
    /\ caller \in Callers
    /\ video_file \in BOOLEAN
    /\ creation_id = 0
    /\ creation_logged = "none"
    /\ container = "none"
    /\ uploaded = FALSE
    /\ container_polls = 0
    /\ uploadCalls = 0
    /\ publishVideoCalls = 0
    /\ publish_result = "none"
    /\ success_logged = FALSE
    /\ caller_outcome = "none"

\* create_media_container and the test of its result in upload_and_publish:
\* the request raises, or the answer carries "id" and "uri", or "id" alone
\* (logged as a failure, the id is returned all the same), or no "id" and
\* upload_and_publish returns None after two log lines
CreateMediaContainer ==
    /\ upc = "create"
    /\ \E answer \in {"id_uri", "id", "no_id", "raises"} :
         CASE answer = "raises" ->
                /\ upc' = "raised"
                /\ UNCHANGED <<creation_id, creation_logged, container>>
           [] answer = "no_id" ->
                /\ creation_logged' = "failed"
                /\ upc' = "returned"
                /\ UNCHANGED <<creation_id, container>>
           [] OTHER ->
                /\ creation_id' = 1
                /\ creation_logged' = IF answer = "id_uri" THEN "created" ELSE "failed"
                /\ container' = "IN_PROGRESS"
                /\ upc' = "upload"
    /\ UNCHANGED <<caller, video_file, uploaded, container_polls, uploadCalls,
                   publishVideoCalls, publish_result, success_logged, caller_outcome>>
    /\ UNCHANGED <<wvars, pvars, cvars>>

\* upload_video: os.path.getsize raises for a missing file, the request may
\* raise, and the answer is logged without being looked at
UploadVideo ==
    /\ upc = "upload"
    /\ uploadCalls' = uploadCalls + 1
    /\ IF ~video_file
         THEN /\ upc' = "raised"
              /\ UNCHANGED uploaded
         ELSE \E answer \in {"received", "refused", "raises"} :
                /\ upc' = IF answer = "raises" THEN "raised" ELSE "publish"
                /\ uploaded' = (answer = "received")
    /\ UNCHANGED <<caller, video_file, creation_id, creation_logged, container, container_polls,
                   publishVideoCalls, publish_result, success_logged, caller_outcome>>
    /\ UNCHANGED <<wvars, pvars, cvars>>

\* the platform processes the container: it finishes or fails once the video
\* is received, and it can expire at any time
Platform ==
    /\ upc \in {"upload", "publish"}
    /\ container = "IN_PROGRESS"
    /\ \E st \in Terminal :
         /\ st \in {"FINISHED", "ERROR"} => uploaded
         /\ container' = st
    /\ UNCHANGED <<upc, caller, video_file, creation_id, creation_logged, uploaded, container_polls,
                   uploadCalls, publishVideoCalls, publish_result, success_logged,
                   caller_outcome>>
    /\ UNCHANGED <<wvars, pvars, cvars>>

\* publish_video and the end of upload_and_publish: the platform publishes a
\* finished container only, the answer is logged without being looked at and
\* "Video uploaded successfully!" is logged
PublishVideo ==
    /\ upc = "publish"
    /\ publishVideoCalls' = publishVideoCalls + 1
    /\ \E answer \in {"published", "rejected", "raises"} :
         /\ answer = "published" => container = "FINISHED"
         /\ IF answer = "raises"
              THEN /\ upc' = "raised"
                   /\ UNCHANGED <<publish_result, success_logged>>
              ELSE /\ publish_result' = answer
                   /\ success_logged' = TRUE
                   /\ upc' = "returned"
    /\ UNCHANGED <<caller, video_file, creation_id, creation_logged, container, uploaded, container_polls,
                   uploadCalls, caller_outcome>>
    /\ UNCHANGED <<wvars, pvars, cvars>>

\* the caller: autopost.py logs success after a normal return and exits with
\* code 2 on an exception, the command line of instagram_api.py ends normally
\* or with the traceback
ReportUpload ==
    /\ upc \in {"returned", "raised"}
    /\ caller_outcome' =
         IF caller = "autopost"
           THEN IF upc = "returned" THEN "success" ELSE "exit_2"
           ELSE IF upc = "returned" THEN "exit_0" ELSE "traceback"
    /\ upc' = "done"
    /\ UNCHANGED <<caller, video_file, creation_id, creation_logged, container, uploaded, container_polls,
                   uploadCalls, publishVideoCalls, publish_result, success_logged>>
    /\ UNCHANGED <<wvars, pvars, cvars>>

PublishNext ==
    \/ CreateMediaContainer
    \/ UploadVideo
    \/ Platform
    \/ PublishVideo
    \/ ReportUpload

PublishSpec == PublishInit /\ [][PublishNext]_vars

(* ------------------ ConfigManager.get('instagram_access_token') ------------------ *)

\* the answers of is_instagram_token_expired: always True for an empty or
\* placeholder token, else what the expiration reported for the token gives
\* (the 60 day fallback of _get_facebook_token_expiration counts as not expired)
ExpiredAnswers(tok) == IF tok = "placeholder" THEN {TRUE} ELSE BOOLEAN

\* a caller is about to call get('instagram_access_token')
ConfigInit ==
    /\ WorkflowOff
    /\ ParseOff
    /\ PublishOff
    /\ cpc = "call"
    /\ token \in {"placeholder", "token"}
    /\ depth = 0
    /\ expiryChecks = 0
    /\ refreshRequests = 0
    /\ get_outcome = "none"

\* get('instagram_access_token') is entered, by the caller or by the params
\* of refresh_instagram_token: with the call stack full the call raises
\* RecursionError, else it runs the expiry check and, when that says expired,
\* calls refresh_instagram_token, which first builds its params
GetToken ==
    /\ cpc \in {"call", "params"}
    /\ IF depth = RecursionLimit
         THEN /\ cpc' = "raising"
              /\ UNCHANGED <<depth, expiryChecks>>
         ELSE /\ depth' = depth + 1
              /\ expiryChecks' = expiryChecks + 1
              /\ \E expired \in ExpiredAnswers(token) :
                   cpc' = IF expired THEN "params" ELSE "return"
    /\ UNCHANGED <<token, refreshRequests, get_outcome>>
    /\ UNCHANGED <<wvars, pvars, uvars>>

\* a nested get has returned the token to refresh_instagram_token, which sends
\* the request: with an access_token in the answer it records the expiration
\* and returns to its get (config['instagram_access_token'] is left as it
\* was), else it raises
RefreshToken ==
    /\ cpc = "return"
    /\ depth >= 2
    /\ depth' = depth - 1
    /\ refreshRequests' = refreshRequests + 1
    /\ \E answer \in {"access_token", "error", "raises"} :
         cpc' = IF answer = "access_token" THEN "return" ELSE "raising"
    /\ UNCHANGED <<token, expiryChecks, get_outcome>>
    /\ UNCHANGED <<wvars, pvars, uvars>>

\* the outermost get returns self.config.get(key, default)
ReturnToken ==
    /\ cpc = "return"
    /\ depth = 1
    /\ depth' = 0
    /\ get_outcome' = token
    /\ cpc' = "returned"
    /\ UNCHANGED <<token, expiryChecks, refreshRequests>>
    /\ UNCHANGED <<wvars, pvars, uvars>>

\* an exception leaves one frame of get and the refresh_instagram_token that
\* called it (logged and raised again), and at last the outermost get
Propagate ==
    /\ cpc = "raising"
    /\ IF depth > 0
         THEN /\ depth' = depth - 1
              /\ UNCHANGED <<cpc, get_outcome>>
         ELSE /\ cpc' = "raised"
              /\ get_outcome' = "raised"
              /\ UNCHANGED depth
    /\ UNCHANGED <<token, expiryChecks, refreshRequests>>
    /\ UNCHANGED <<wvars, pvars, uvars>>

ConfigNext ==
    \/ GetToken
    \/ RefreshToken
    \/ ReturnToken
    \/ Propagate

ConfigSpec == ConfigInit /\ [][ConfigNext]_vars

(* ------------------------------ claims -------------------------------- *)

\* the run has returned (and possibly the process has exited)
Returned == pc \in {"done", "exited"}

\* owners of the candidates still in the list
RemainingOwners == {available_configs[k].owner : k \in 1..Len(available_configs)}

\* the constructor of the uploader raised (configuration or token refresh),
\* so upload_and_publish was never called
UploaderFailed == reason \in {"publish_error", "missing_credentials"} /\ publishCalls = 0

\* C1: once a candidate has rendered successfully (create_video,
\* wait_for_completion with an accepted duration and download_video all
\* returned, i.e. video_success is set), no step of the run calls
\* create_video again, however many candidates remain.
C1_NoCreateAfterSuccess == [][video_success => createCalls' = createCalls]_vars

\* C1 witness: a run has returned after a successful render while other
\* candidates were still in the list.
C1_Witness == Returned /\ video_success /\ Len(available_videos) >= 2

\* C2 (as claimed): a non-draft run over 3 candidates in which two
\* candidates failed rendering and the third rendered, and in which the
\* uploader could be built, ends with exactly 3 create_video calls,
\* exactly 1 publish attempt and the result True.
C2_ThreeCandidatesPublish ==
    (/\ Returned
     /\ ~video_draft_only
     /\ Len(drafted_configs) = 3
     /\ renderFailures = 2
     /\ video_success
     /\ ~UploaderFailed)
    => (createCalls = 3 /\ publishCalls = 1 /\ result = "True")

\* C3 (as claimed): when a non-draft run that downloaded an artifact has
\* returned, the artifact file is gone, whichever way the run ended.
C3_ArtifactDeleted ==
    (Returned /\ ~video_draft_only /\ video_success) => artifact = 0

\* C4: when every candidate has failed (the list is exhausted without a
\* successful render), the run has made no publish attempt, has built no
\* uploader, and returns False for the reason "all videos failed", in
\* draft-only mode as well as in publishing mode.
C4_NoViableCandidate ==
    (Returned /\ Len(drafted_configs) > 0 /\ available_videos = <<>>)
    => (/\ ~video_success
        /\ publishCalls = 0
        /\ ~uploaderCreated
        /\ result = "False"
        /\ reason = "all_videos_failed")

\* C4 witness: a draft-only run has returned after one candidate was
\* dropped for its config and another for a failed render, none being left.
C4_Witness ==
    /\ Returned
    /\ video_draft_only
    /\ available_videos = <<>>
    /\ invalidDiscards >= 1
    /\ renderFailures >= 1

\* C5: in draft-only mode no uploader is ever built and upload_and_publish
\* is never called, and a run that rendered successfully returns True with
\* the downloaded artifact of the selected candidate still on disk.
C5_DraftOnly ==
    video_draft_only =>
        /\ publishCalls = 0
        /\ ~uploaderCreated
        /\ pc \notin {"publish", "publish_call"}
        /\ (Returned /\ video_success) =>
               (result = "True" /\ artifact # 0 /\ artifact = selected_caption)

\* C5 witness: a draft-only run has returned after a successful render.
C5_Witness == Returned /\ video_draft_only /\ video_success /\ renderFailures >= 1

\* C6: upload_and_publish is invoked at most once per run; from the publish
\* step on no create_video call is made, the step either goes on to the
\* call or ends the run, and a run ended by a publish failure returns False.
C6_PublishOnce ==
    [][/\ publishCalls' <= 1
       /\ (pc \in {"publish", "publish_call"} =>
              /\ createCalls' = createCalls
              /\ pc' \in {"publish_call", "done"}
              /\ (pc' = "done" =>
                     /\ result' = "False"
                     /\ reason' \in {"publish_error", "missing_credentials"}))
       /\ (reason \in {"publish_error", "missing_credentials"} =>
              /\ createCalls' = createCalls
              /\ publishCalls' = publishCalls
              /\ result' = "False")]_vars

\* C6 witness: the publish call was made and failed while another candidate
\* was still in the list, and the run returned False.
C6_Witness ==
    /\ Returned
    /\ publishCalls = 1
    /\ reason = "publish_error"
    /\ result = "False"
    /\ Len(available_videos) >= 2

\* C7 (as claimed): no render client method (create_video, status poll,
\* download) is ever called for a candidate whose parsed config is empty,
\* and with the candidates [valid config rendering 5 s, invalid JSON] the
\* run (when the uploader could be built) returns True using the render of
\* the valid candidate.
C7_InvalidConfigSkipped ==
    /\ \A o \in renderCalls : ~ConfigInvalid(drafted_configs[o].kind)
    /\ (/\ Returned
        /\ Len(drafted_configs) = 2
        /\ drafted_configs[1].kind = "scenes"
        /\ ConfigInvalid(drafted_configs[2].kind)
        /\ video_success
        /\ video_duration = 5
        /\ ~UploaderFailed)
       => (result = "True" /\ artifact = 1 /\ renderCalls = {1})

\* the four render failure kinds C8 names
NamedFailures == {"submit", "timeout", "error_status", "short"}

\* C8: a step in which the inner handler drops a candidate for a submission
\* error, a wait timeout, an error status or a duration below 2 seconds
\* removes exactly the selected candidate from both lists, has made no
\* download for it, and leaves the run in the loop, not failed.
C8_RenderFailureDiscards ==
    [][(renderFailures' # renderFailures /\ lastFailure' \in NamedFailures) =>
          LET owner == available_configs[selected_index].owner IN
          /\ owner = selected_caption
          /\ Len(available_videos') = Len(available_videos) - 1
          /\ Len(available_configs') = Len(available_configs) - 1
          /\ {available_videos'[k] : k \in 1..Len(available_videos')}
                = {available_videos[k] : k \in 1..Len(available_videos)} \ {owner}
          /\ {available_configs'[k].owner : k \in 1..Len(available_configs')}
                = RemainingOwners \ {owner}
          /\ owner \notin downloadCalls'
          /\ pc' = "loop"
          /\ result' = "running"]_vars

\* C8 witness: a candidate was dropped for a wait timeout, another is still
\* in the list and the run goes on.
C8_Witness ==
    /\ pc = "loop"
    /\ lastFailure = "timeout"
    /\ available_videos # <<>>
    /\ result = "running"

\* C9 (as claimed): when the loop selects a candidate whose config is not a
\* scene-structured object (empty, null, a number, a non-empty list) and
\* other candidates remain, the step drops that candidate and the run goes
\* on; it does not fail.
C9_MalformedConfigIsLocal ==
    [][(/\ pc = "loop"
        /\ LoopContinues
        /\ jobs' = jobs
        /\ Len(available_videos) >= 2
        /\ available_configs[selected_index'].kind # "scenes") =>
          /\ result' = "running"
          /\ pc' = "loop"
          /\ available_configs[selected_index'].owner
                \notin {available_configs'[k].owner : k \in 1..Len(available_configs')}]_vars

\* the steps of the process itself, without those of the render service
WorkflowStep ==
    \/ Prepare
    \/ SelectVideo
    \/ CreateVideo
    \/ WaitPoll
    \/ WaitTimeout
    \/ ConsumeStatus
    \/ DownloadVideo
    \/ LoopExit
    \/ CreateUploader
    \/ UploadAndPublish
    \/ Exit

\* C10: the run never stops anywhere but at a return (every failure of a
\* stage is turned into the result False), it returns True or False, and
\* the exit code is 0 exactly when it returned True, which happens exactly
\* when a render succeeded and nothing failed afterwards; it is 1 after a
\* config error, exhausted candidates or a publish failure.
C10_AlwaysReturns ==
    /\ pc # "exited" => ENABLED WorkflowStep
    /\ Returned <=> result \in {"True", "False"}
    /\ pc = "exited" =>
          /\ exit_code \in {0, 1}
          /\ (exit_code = 0) <=> (result = "True")
          /\ (exit_code = 0) <=> (video_success /\ reason = "none")
          /\ reason \in {"config_error", "draft_error", "no_connection", "no_videos",
                         "all_videos_failed", "attribute_error", "publish_error"}
                => exit_code = 1

\* C10 witness: the process has exited with code 1 after a publish step
\* that was called and created no container.
C10_Witness ==
    /\ pc = "exited"
    /\ exit_code = 1
    /\ reason = "publish_error"
    /\ publishCalls = 1

\* C11 (as claimed): whenever create_video is called for a candidate, every
\* render job submitted earlier in the run has reached a terminal state on
\* the render service (done or error), also after a wait that timed out.
C11_NoTwoJobsInFlight ==
    [][createCalls' # createCalls =>
          \A p \in 1..Len(jobs) : jobs[p] # "running"]_vars

(* ------------------- claims on parse_json2video_config ----------------- *)

\* parse_json2video_config has returned
Parsed == ppc \in {"returned", "saved"}

\* the value is an object with a list under "scenes" in which every scene
\* is an object with a non-empty list under "elements"
HasElements(scene) ==
    /\ scene.t = "obj"
    /\ \E k \in 1..Len(scene.kids) :
         /\ scene.kids[k].key = <<"elements">>
         /\ scene.kids[k].val.t = "list"
         /\ scene.kids[k].val.kids # <<>>

SceneStructured(v) ==
    /\ v.t = "obj"
    /\ \E k \in 1..Len(v.kids) :
         /\ v.kids[k].key = <<"scenes">>
         /\ v.kids[k].val.t = "list"
         /\ \A j \in 1..Len(v.kids[k].val.kids) : HasElements(v.kids[k].val.kids[j])

\* the value is not empty (Python: it is truthy)
Truthy(v) == v.kids # <<>> \/ v.text # <<>>

\* C12 (as claimed): every config parse_json2video_config returns
\* non-empty, and hence every config the workflow would submit, is a
\* scene-structured object in which every scene has at least one element;
\* valid JSON of another shape yields the empty config.
C12_ReturnedConfigIsSceneStructured ==
    /\ Parsed /\ Truthy(config_json) => SceneStructured(config_json)
    /\ saved_kind = "scenes" => SceneStructured(config_json)

ClaimedOrder == <<"direct parsing", "control character removal",
                  "JSON extraction", "escaped character fixing">>

\* C14: the strategies are applied in the order direct parsing, control
\* character removal, extraction from the first '{' to the last '}',
\* un-escaping of \" and \n; the value returned is what json.loads makes
\* of the first repaired text it accepts, every earlier strategy having
\* failed, and no strategy is applied after one has succeeded.
C14_FixedOrder ==
    /\ Len(tried) <= 4
    /\ \A k \in 1..Len(tried) : tried[k] = ClaimedOrder[k]
    /\ strategy_name # "none" =>
         /\ Parsed
         /\ strategy_name = tried[Len(tried)]
         /\ config_json = JsonLoads(Repair(strategy_name, config_str)).val
         /\ \A k \in 1..(Len(tried) - 1) : ~JsonLoads(Repair(tried[k], config_str)).ok

\* C14 witness: the third strategy succeeded after the first two had failed.
C14_Witness ==
    /\ Parsed
    /\ strategy_name = "JSON extraction"
    /\ tried = <<"direct parsing", "control character removal", "JSON extraction">>

\* the text is the JSON text of a value, with at most whitespace around
\* it and between its tokens
WellFormed ==
    /\ produced # Given
    /\ produced.damage \in {"none", "pretty"}
    /\ \A k \in 1..Len(produced.pre) : produced.pre[k] \in Whitespace
    /\ \A k \in 1..Len(produced.post) : produced.post[k] \in Whitespace

\* C15: for a well-formed JSON text the function returns exactly the value
\* the text denotes, and it is the first strategy (direct parsing) that
\* yields it.
C15_WellFormedIsParsedDirectly ==
    Parsed /\ WellFormed =>
        /\ config_json = produced.value
        /\ strategy_name = "direct parsing"
        /\ tried = <<"direct parsing">>

\* C15 witness: a well-formed text of a list that holds an object, spread
\* over lines, was returned as that list.
C15_Witness ==
    /\ Parsed
    /\ WellFormed
    /\ produced.damage = "pretty"
    /\ produced.value.t = "list"
    /\ produced.value.kids # <<>>
    /\ produced.value.kids[1].t = "obj"
    /\ \E k \in 1..Len(config_str) : config_str[k] = "LF"
    /\ config_json = produced.value

\* the text is one JSON object with prose before and/or after it (an
\* object with members, which the answer {} of a failure cannot be taken for)
WrappedInProse ==
    /\ produced # Given
    /\ produced.damage = "none"
    /\ produced.value.t = "obj"
    /\ produced.value # EmptyConfig
    /\ produced.pre = <<>> \/ IsProse(produced.pre)
    /\ produced.post = <<>> \/ IsProse(produced.post)
    /\ IsProse(produced.pre) \/ IsProse(produced.post)

\* C16 (as claimed): for a single JSON object wrapped in prose before
\* and/or after it, the function returns the embedded object, by the
\* third strategy.
C16_ProseWrappedObject ==
    Parsed /\ WrappedInProse =>
        /\ config_json = produced.value
        /\ strategy_name = "JSON extraction"

\* C16 (amended): for a single JSON object wrapped in prose that has no
\* '{' before the object and no '}' after it, the function returns the
\* embedded object, by the third strategy.
C16_ProseWithoutBraces ==
    (/\ Parsed
     /\ WrappedInProse
     /\ Find(produced.pre, "{") = 0
     /\ RFind(produced.post, "}") = 0) =>
        /\ config_json = produced.value
        /\ strategy_name = "JSON extraction"

\* C16 witness: a scene config with prose on both sides was extracted.
C16_Witness ==
    /\ Parsed
    /\ WrappedInProse
    /\ IsProse(produced.pre)
    /\ IsProse(produced.post)
    /\ Find(produced.pre, "{") = 0
    /\ RFind(produced.post, "}") = 0
    /\ produced.value = SceneConfig
    /\ config_json = SceneConfig
    /\ strategy_name = "JSON extraction"

\* C17: for the empty string and for None the function returns the empty
\* config at once: no strategy is tried, nothing is raised.
C17_EmptyInput ==
    config_str \in {None, <<>>} =>
        /\ ppc \in {"entry", "returned", "saved"}
        /\ tried = <<>>
        /\ remaining = <<>>
        /\ Parsed => config_json = EmptyConfig /\ strategy_name = "none"

\* C17 witness: the call with the empty string has returned {}.
C17_Witness ==
    /\ config_str = <<>>
    /\ ppc = "returned"
    /\ config_json = EmptyConfig
    /\ tried = <<>>

(* ----------------------- claims on wait_for_completion ----------------- *)

\* C18 (as claimed): a poll whose status is 'error' makes
\* wait_for_completion fail at once; such a payload is never reported as
\* a completed job.
C18_ErrorStatusNeverCompleted ==
    pc = "consume" => StatusOf(completion_status) # "error"

\* C19 (as claimed): an answer of the status endpoint that does not
\* contain the submitted job is transient: wait_for_completion neither
\* fails nor reports completion on it, it sleeps and polls again.
C19_NotFoundIsTransient ==
    pc = "consume" => completion_status.shape # "full"

SelectedOwner == available_configs[selected_index].owner

\* C24: when the answer to create_video names no job (no 'project' in the
\* response, or the request failed), create_video raises: the step leaves
\* no job to wait for, the candidate is discarded at once, and neither a
\* status poll nor a download is made for it.
C24_NoJobIdFailsSubmission ==
    [][(createCalls' = createCalls + 1 /\ jobs' = jobs) =>
          /\ pc' = "loop"
          /\ lastFailure' = "submit"
          /\ project_id' = project_id
          /\ polls' = 0
          /\ Len(available_videos') = Len(available_videos) - 1
          /\ SelectedOwner \notin RemainingOwners'
          /\ SelectedOwner \notin downloadCalls']_vars

\* C24 witness: the only submission so far got no job and the candidate
\* is gone, with no download made.
C24_Witness ==
    /\ pc = "loop"
    /\ lastFailure = "submit"
    /\ createCalls = 1
    /\ jobs = <<>>
    /\ downloadCalls = {}
    /\ Len(available_videos) = Len(drafted_configs) - 1

\* C25 (as claimed): a run that fails for a missing credential (render API
\* key, Instagram access token or user id) fails before any render
\* submission.
C25_MissingCredentialsFailAtStartup ==
    reason \in {"no_api_key", "missing_credentials"} => createCalls = 0

C27_ListsStayAligned ==
    /\ Len(available_videos) = Len(available_configs)
    /\ \A k \in 1..Len(available_videos) : available_videos[k] = available_configs[k].owner
    /\ pc \in {"create", "wait", "consume", "download"} => selected_caption = SelectedOwner
    /\ pc \in {"publish", "publish_call"} => video_success /\ selected_caption = artifact

\* C27 witness: after removals, a candidate that was not the head of the
\* list rendered and its caption is about to be published.
C27_Witness ==
    /\ pc = "publish_call"
    /\ invalidDiscards + renderFailures >= 1
    /\ selected_index >= 2
    /\ selected_caption = artifact

\* C28 (as claimed): every status payload wait_for_completion returns for
\* a job whose duration is at least 2 seconds is consumed by a move to
\* download_video, whatever its shape (nested under 'movie', flat from
\* 'movies', or the whole response).
C28_AcceptedPayloadIsConsumable ==
    [][(/\ pc = "consume"
        /\ pc' # "consume"
        /\ completion_status.duration >= MinDuration) => pc' = "download"]_vars

\* C29: when a status poll raises inside wait_for_completion, the wait
\* fails at that poll, without sleep or further poll, and the loop
\* discards the candidate and goes on.
C29_PollErrorNotRetried ==
    [][(pc = "wait" /\ lastFailure' = "poll_error") =>
          /\ pc' = "loop"
          /\ elapsed' = 0
          /\ polls' = 0
          /\ renderFailures' = renderFailures + 1
          /\ Len(available_videos') = Len(available_videos) - 1
          /\ SelectedOwner \notin RemainingOwners'
          /\ SelectedOwner \notin downloadCalls'
          /\ ~video_success']_vars

\* C29 witness: after a poll that raised, the candidate is gone and the
\* loop has another candidate to try.
C29_Witness ==
    /\ pc = "loop"
    /\ lastFailure = "poll_error"
    /\ renderFailures >= 1
    /\ available_videos # <<>>
    /\ ~video_success


(* ------------------- claims on the publish client ---------------------- *)

\* upload_and_publish is over, normally or with an exception
PublishOver == upc \in {"returned", "raised", "done"}

\* the caller took the call for failed
PublishReportedFailed == caller_outcome \in {"exit_2", "traceback"}

\* C21: the wait for the container is a poll loop with a fixed budget: when
\* the container never reaches FINISHED, ERROR or EXPIRED, upload_and_publish
\* has polled its status a positive number of times, has not published it and
\* has not reported success.
C21_ReadinessWaitIsBounded ==
    (upc = "returned" /\ container = "IN_PROGRESS")
        => /\ container_polls >= 1
           /\ publishVideoCalls = 0
           /\ ~success_logged

\* C22: publish_video is called only for a container that was observed to be
\* FINISHED, and a publish that the platform rejects is not reported as a
\* success.
C22_PublishOnlyWhenFinished ==
    [][publishVideoCalls' = publishVideoCalls + 1
         => /\ container = "FINISHED"
            /\ container_polls >= 1
            /\ publish_result' = "rejected" => ~success_logged']_vars

\* C23: when the answer to the container creation carries no id, nothing is
\* uploaded, nothing is published and the call does not end as a success: it
\* does not return normally and its caller takes it for failed.
C23_MissingContainerIdFails ==
    (PublishOver /\ creation_id = 0)
        => /\ uploadCalls = 0
           /\ publishVideoCalls = 0
           /\ upc # "returned"
           /\ upc = "done" => PublishReportedFailed


(* ----------------- claims on the configuration manager ----------------- *)

\* C30: get('instagram_access_token') ends after at most one refresh request:
\* refresh_instagram_token does not enter get's expiry check and refresh
\* again, so one get runs one expiry check, holds one frame of get and sends
\* at most one request.
C30_GetRefreshesAtMostOnce ==
    /\ depth <= 1
    /\ expiryChecks <= 1
    /\ refreshRequests <= 1

====
